---- MODULE Spec2Model ----
(***************************************************************************)
(* Model of src/app.py (cotizador de llantas): the spreadsheet-to-catalog  *)
(* ingestion (cargar_catalogo_productos and its helpers), the catalog      *)
(* search and selection of the page script, and the quotation insert.      *)
(*                                                                         *)
(* Strings are sequences of one-character atoms, so that concatenation,    *)
(* trimming, case conversion and substring search are computed and not     *)
(* assumed.  Accented letters are the atoms "o'", "e'", "n~" and "O'", ...   *)
(***************************************************************************)
EXTENDS Integers, Sequences, FiniteSets, TLC

VARIABLES
    pc,               \* position of the modelled run
    df_raw,           \* _find_header_row: the raw grid handed to it
    hdr,              \* _find_header_row: its return value
    cod_x,            \* _norm_codigo: the cell value x
    cod_1,            \* _norm_codigo(x)
    cod_2,            \* _norm_codigo(_norm_codigo(x))
    archivos,         \* cargar_catalogo_productos: the sorted source files
    k,                \* ... the position of the loop over archivos
    filas,            \* ... the standard frames collected so far
    avisos,           \* ... the st.warning / st.error signals emitted
    catalogo,         \* ... the frame it returns
    busqueda,         \* page script: the text typed into the search box
    filtrados,        \* ... the filtered catalog
    uid_seleccionado, \* ... the option picked in the selectbox
    fila_sel,         \* ... the selected row, in a one-element sequence
    precio_sugerido,  \* ... the unit price pre-filled into the form
    form,             \* quotation: the submitted form fields
    total,            \* ... cantidad * precio_unitario, in hundredths
    tabla,            \* ... the committed rows of table cotizaciones
    tabla_antes,      \* ... the table as it was when the form was submitted
    txn,              \* ... the rows inserted in the open transaction
    mensaje           \* ... the st.success / st.error shown for the submission

headerVars == <<df_raw, hdr>>
codigoVars == <<cod_x, cod_1, cod_2>>
cargaVars == <<archivos, k, filas, avisos, catalogo>>
uiVars == <<busqueda, filtrados, uid_seleccionado, fila_sel, precio_sugerido>>
dbVars == <<form, total, tabla, tabla_antes, txn, mensaje>>
vars == <<pc, headerVars, codigoVars, cargaVars, uiVars, dbVars>>

----------------------------------------------------------------------------
(* Python str / pandas .str helpers *)

Min(a, b) == IF a <= b THEN a ELSE b

LowerAlpha ==
    <<"a","b","c","d","e","f","g","h","i","j","k","l","m","n","o","p","q",
      "r","s","t","u","v","w","x","y","z","o'","e'","n~">>
UpperAlpha ==
    <<"A","B","C","D","E","F","G","H","I","J","K","L","M","N","O","P","Q",
      "R","S","T","U","V","W","X","Y","Z","O'","E'","N~">>

UpperChar(c) ==
    IF \E i \in 1..Len(LowerAlpha) : LowerAlpha[i] = c
    THEN UpperAlpha[CHOOSE i \in 1..Len(LowerAlpha) : LowerAlpha[i] = c]
    ELSE c
LowerChar(c) ==
    IF \E i \in 1..Len(UpperAlpha) : UpperAlpha[i] = c
    THEN LowerAlpha[CHOOSE i \in 1..Len(UpperAlpha) : UpperAlpha[i] = c]
    ELSE c

\* str.upper(), str.lower()
Upper(s) == [i \in 1..Len(s) |-> UpperChar(s[i])]
Lower(s) == [i \in 1..Len(s) |-> LowerChar(s[i])]

\* characters str.strip() removes and the regex class \s matches
Whitespace == {" ", "\t"}

RECURSIVE LStrip(_)
LStrip(s) ==
    IF s # <<>> /\ Head(s) \in Whitespace THEN LStrip(Tail(s)) ELSE s
RECURSIVE RStrip(_)
RStrip(s) ==
    IF s # <<>> /\ s[Len(s)] \in Whitespace
    THEN RStrip(SubSeq(s, 1, Len(s) - 1)) ELSE s
\* str.strip()
Strip(s) == RStrip(LStrip(s))

\* str.endswith(suf)
EndsWith(s, suf) ==
    /\ Len(s) >= Len(suf)
    /\ SubSeq(s, Len(s) - Len(suf) + 1, Len(s)) = suf

\* literal substring test: sub in s
Contains(s, sub) ==
    \E i \in 0..(Len(s) - Len(sub)) : SubSeq(s, i + 1, i + Len(sub)) = sub

Digits == <<"0","1","2","3","4","5","6","7","8","9">>

\* str(n) of a non-negative int
RECURSIVE NatStr(_)
NatStr(n) ==
    IF n < 10 THEN <<Digits[n + 1]>>
    ELSE NatStr(n \div 10) \o <<Digits[(n % 10) + 1]>>

----------------------------------------------------------------------------
(* Untyped cells of a sheet read with header=None.  k is the cell's Python *)
(* type: "nan" (empty cell), "int", "float" (v in hundredths) or "str" (s).*)

NaN == [k |-> "nan", v |-> 0, s |-> <<>>]
IntCell(n) == [k |-> "int", v |-> n, s |-> <<>>]
FloatCell(h) == [k |-> "float", v |-> h, s |-> <<>>]
StrCell(t) == [k |-> "str", v |-> 0, s |-> t]

\* pd.isna(x)
IsNa(x) == x.k = "nan"

\* repr of a float given in hundredths: shortest form, at least one decimal
FloatStr(h) ==
    LET a == IF h < 0 THEN -h ELSE h
        frac == a % 100
        dec == IF frac % 10 = 0 THEN <<Digits[(frac \div 10) + 1]>>
               ELSE <<Digits[(frac \div 10) + 1], Digits[(frac % 10) + 1]>>
    IN (IF h < 0 THEN <<"-">> ELSE <<>>) \o NatStr(a \div 100) \o <<".">> \o dec

\* str(x) of a cell value
Str(x) ==
    CASE x.k = "nan" -> <<"n","a","n">>
      [] x.k = "int" ->
            (IF x.v < 0 THEN <<"-">> \o NatStr(-x.v) ELSE NatStr(x.v))
      [] x.k = "float" -> FloatStr(x.v)
      [] OTHER -> x.s

----------------------------------------------------------------------------
(* _find_header_row *)

None == -1
HeaderScanRows == 80

CODIGO == <<"C","O","D","I","G","O">>
CODIGO_ACENTO == <<"C","O'","D","I","G","O">>

\* row.str.contains("CODIGO").any() or row.str.contains("CÓDIGO").any(),
\* with row = df_raw.iloc[i].astype(str).str.upper()
RowHasMarker(row) ==
    LET up == [j \in 1..Len(row) |-> Upper(Str(row[j]))]
    IN  \/ \E j \in 1..Len(up) : Contains(up[j], CODIGO)
        \/ \E j \in 1..Len(up) : Contains(up[j], CODIGO_ACENTO)

RECURSIVE ScanHeader(_, _, _)
ScanHeader(df, i, top) ==
    IF i >= top THEN None
    ELSE IF RowHasMarker(df[i + 1]) THEN i
    ELSE ScanHeader(df, i + 1, top)

\* a plausible slip: the scan is not cut at the first 80 rows
find_header_row_unbounded(df) == ScanHeader(df, 0, Len(df))

\* a plausible slip: without a marker the first row is taken for the header
find_header_row_default(df) ==
    LET h == ScanHeader(df, 0, Min(Len(df), HeaderScanRows))
    IN  IF h = None /\ df # <<>> THEN 0 ELSE h

_find_header_row(df) == ScanHeader(df, 0, Min(Len(df), HeaderScanRows))

----------------------------------------------------------------------------
(* _norm_codigo *)

DOT_ZERO == <<".", "0">>

\* a plausible slip: the value is not trimmed
norm_codigo_no_strip(x) ==
    IF IsNa(x) THEN <<>>
    ELSE LET s == Str(x)
         IN  IF EndsWith(s, DOT_ZERO) THEN SubSeq(s, 1, Len(s) - 2) ELSE s

_norm_codigo(x) ==
    IF IsNa(x) THEN <<>>
    ELSE LET s == Strip(Str(x))
         IN  IF EndsWith(s, DOT_ZERO) THEN SubSeq(s, 1, Len(s) - 2) ELSE s

----------------------------------------------------------------------------
(* cargar_catalogo_productos: one sheet *)

\* the column the loop adds to every sheet's frame
USO == <<"_","u","s","o">>

\* Lines 108-122 for a sheet whose header row is h: the header row's cells
\* become the labels (str, strip, lower), of equally named columns the first
\* is kept, the rows below the header that are empty in every kept column are
\* dropped, and "_uso" is set to the sheet's name, trimmed and uppercased.
\* A frame is its set of column labels and its rows, each a function of them.
SheetFrame(sheet, h) ==
    LET head == sheet.grid[h + 1]
        labels == [j \in 1..Len(head) |-> Lower(Strip(Str(head[j])))]
        names == {labels[j] : j \in 1..Len(labels)}
        first(l) == CHOOSE j \in 1..Len(labels) :
                        labels[j] = l /\ \A i \in 1..(j - 1) : labels[i] # l
        data == SubSeq(sheet.grid, h + 2, Len(sheet.grid))
        AnyValue(r) == \E l \in names : ~IsNa(r[first(l)])
        kept == SelectSeq(data, AnyValue)
        uso == StrCell(Upper(Strip(sheet.name)))
        cols == names \cup {USO}
    IN  [cols |-> cols,
         rows |-> [i \in 1..Len(kept) |->
                    [l \in cols |-> IF l = USO THEN uso
                                    ELSE kept[i][first(l)]]]]

\* Lines 101-124: the frames of the sheets with a header row, in sheet order;
\* a sheet without one is passed over silently.
RECURSIVE df_list(_)
df_list(sheets) ==
    IF sheets = <<>> THEN <<>>
    ELSE LET h == _find_header_row(Head(sheets).grid)
         IN  (IF h = None THEN <<>> ELSE <<SheetFrame(Head(sheets), h)>>)
               \o df_list(Tail(sheets))

\* pd.concat(df_list, ignore_index=True): the union of the columns; a row has
\* NaN in the columns its own sheet lacks
RECURSIVE ConcatRows(_, _)
ConcatRows(frames, cols) ==
    IF frames = <<>> THEN <<>>
    ELSE LET fr == Head(frames)
         IN  [i \in 1..Len(fr.rows) |->
                [l \in cols |-> IF l \in fr.cols THEN fr.rows[i][l] ELSE NaN]]
               \o ConcatRows(Tail(frames), cols)

Concat(frames) ==
    LET cols == UNION {frames[i].cols : i \in 1..Len(frames)}
    IN  [cols |-> cols, rows |-> ConcatRows(frames, cols)]

----------------------------------------------------------------------------
(* cargar_catalogo_productos: column mapping and the standard rows *)

mapa_codigo ==
    << <<"c","o","d","i","g","o">>,
       <<"c","o'","d","i","g","o">>,
       <<"c","o","d">>,
       <<"s","k","u">>,
       <<"c","o","d",".">> >>
mapa_producto ==
    << <<"p","r","o","d","u","c","t","o">>,
       <<"d","e","s","c","r","i","p","c","i","o","n">>,
       <<"d","e","s","c","r","i","p","c","i","o'","n">>,
       <<"m","e","d","i","d","a">>,
       <<"l","l","a","n","t","a">>,
       <<"m","e","d","i","d","a","/","t","a","m","a","n~","o">>,
       <<"m","e","d","i","d","a"," ","t","a","m","a","n~","o">> >>
mapa_marca ==
    << <<"m","a","r","c","a">> >>
mapa_modelo ==
    << <<"m","o","d","e","l","o">> >>
mapa_precio ==
    << <<"p","r","e","c","i","o">>,
       <<"c","o","n","t","a","d","o">>,
       <<"c","o","n","t","a","d","o"," ","d","i","s","t">>,
       <<"l","i","m","a"," ","p","r","e","m","i","u","m">>,
       <<"p","r","e","c","i","o"," ","u","n","i","t">>,
       <<"p","r","e","c","i","o","_","u","n","i","t">>,
       <<"p",".","u","n","i","t">>,
       <<"p","_","u","n","i","t">>,
       <<"u","n","i","t","a","r","i","o">> >>
mapa_lista_precio ==
    << <<"l","i","s","t","a","_","p","r","e","c","i","o">>,
       <<"l","i","s","t","a"," ","p","r","e","c","i","o">>,
       <<"t","a","r","i","f","a">>,
       <<"l","i","s","t","a">>,
       <<"c","r","e'","d","i","t","o">>,
       <<"c","r","e","d","i","t","o">>,
       <<"c","r","e","d","i","t","o"," ","d","i","s","t">>,
       <<"c","r","e'","d","i","t","o"," ","d","i","s","t">> >>

\* col() answers None when no synonym is a column; the caller only tests the
\* answer for truth, and no synonym is the empty string
NoColumn == <<>>

RECURSIVE col(_, _)
col(df_cols, posibles) ==
    IF posibles = <<>> THEN NoColumn
    ELSE IF Head(posibles) \in df_cols THEN Head(posibles)
    ELSE col(df_cols, Tail(posibles))

\* value of a decimal digit string, -1 if some character is no digit
RECURSIVE DigitsValue(_)
DigitsValue(t) ==
    IF t = <<>> THEN 0
    ELSE LET c == t[Len(t)]
             rest == DigitsValue(SubSeq(t, 1, Len(t) - 1))
         IN  IF rest < 0 \/ ~(\E d \in 1..10 : Digits[d] = c) THEN -1
             ELSE 10 * rest + ((CHOOSE d \in 1..10 : Digits[d] = c) - 1)

\* A text cell as a number in hundredths: optional sign, digits, optionally a
\* point and one or two digits.  Any other text is not a number here; the
\* model's price cells stay within these forms and plain non-numeric text.
ParseNumber(t) ==
    LET u == Strip(t)
        neg == u # <<>> /\ Head(u) = "-"
        body == IF neg THEN Tail(u) ELSE u
        dots == {i \in 1..Len(body) : body[i] = "."}
        ip == IF dots = {} THEN body
              ELSE SubSeq(body, 1, (CHOOSE i \in dots : TRUE) - 1)
        fp == IF dots = {} THEN <<>>
              ELSE SubSeq(body, (CHOOSE i \in dots : TRUE) + 1, Len(body))
        ok == /\ Cardinality(dots) <= 1
              /\ ip # <<>> /\ DigitsValue(ip) >= 0
              /\ (dots # {} => fp # <<>>)
              /\ Len(fp) <= 2 /\ DigitsValue(fp) >= 0
        mag == 100 * DigitsValue(ip)
                 + (IF Len(fp) = 1 THEN 10 * DigitsValue(fp) ELSE DigitsValue(fp))
    IN  IF ok THEN FloatCell(IF neg THEN -mag ELSE mag) ELSE NaN

\* pd.to_numeric(x, errors="coerce") of one value: a float, or NaN
to_numeric(x) ==
    CASE x.k = "int" -> FloatCell(100 * x.v)
      [] x.k = "float" -> x
      [] x.k = "str" -> ParseNumber(x.s)
      [] OTHER -> NaN

\* f"{x:.2f}" of a float in hundredths
Format2f(h) ==
    LET a == IF h < 0 THEN -h ELSE h
    IN  (IF h < 0 THEN <<"-">> ELSE <<>>) \o NatStr(a \div 100) \o <<".">>
          \o <<Digits[((a % 100) \div 10) + 1], Digits[(a % 10) + 1]>>

\* .str.replace(r"\s+", " ", regex=True): every run of whitespace becomes " "
RECURSIVE CollapseSpaces(_)
CollapseSpaces(t) ==
    IF t = <<>> THEN <<>>
    ELSE IF Head(t) \in Whitespace
         THEN <<" ">> \o CollapseSpaces(LStrip(t))
         ELSE <<Head(t)>> \o CollapseSpaces(Tail(t))

\* .fillna("").astype(str) of one value
TextOf(x) == IF IsNa(x) THEN <<>> ELSE Str(x)

\* Lines 151-186 for row number idx (from 0) of a file's concatenated frame
OutRow(proveedor, r, idx, c_codigo, c_producto, c_marca, c_modelo, c_precio, c_lista) ==
    LET uso == Str(r[USO])
        codigo == IF c_codigo # NoColumn THEN _norm_codigo(r[c_codigo]) ELSE <<>>
        producto == IF c_producto # NoColumn THEN TextOf(r[c_producto]) ELSE <<>>
        marca == IF c_marca # NoColumn THEN TextOf(r[c_marca]) ELSE <<>>
        modelo == IF c_modelo # NoColumn THEN TextOf(r[c_modelo]) ELSE <<>>
        precio == to_numeric(IF c_precio # NoColumn THEN r[c_precio] ELSE NaN)
        lista == IF c_lista # NoColumn THEN TextOf(r[c_lista]) ELSE <<>>
    IN  [proveedor |-> proveedor,
         uso |-> uso,
         codigo |-> codigo,
         producto |-> producto,
         marca |-> marca,
         modelo |-> modelo,
         precio |-> precio,
         lista_precio |-> lista,
         uid |-> proveedor \o <<"|">> \o uso \o <<"|">> \o NatStr(idx),
         texto_busqueda |->
             Strip(CollapseSpaces(Upper(codigo) \o <<" ">> \o Upper(producto)
                     \o <<" ">> \o Upper(marca) \o <<" ">> \o Upper(modelo))),
         label |-> Upper(marca) \o <<" ","|"," ">> \o uso
                     \o <<" ","|"," ","S","/"," ">>
                     \o Format2f(IF IsNa(precio) THEN 0 ELSE precio.v)]

\* Lines 131-186: the standard rows of one file from its non-empty df_list.
\* The columns are resolved once, on the concatenated frame of all its sheets.
Out(proveedor, frames) ==
    LET df == Concat(frames)
        c_codigo == col(df.cols, mapa_codigo)
        c_producto == col(df.cols, mapa_producto)
        c_marca == col(df.cols, mapa_marca)
        c_modelo == col(df.cols, mapa_modelo)
        c_precio == col(df.cols, mapa_precio)
        c_lista == col(df.cols, mapa_lista_precio)
    IN  [i \in 1..Len(df.rows) |->
            OutRow(proveedor, df.rows[i], i - 1, c_codigo, c_producto,
                   c_marca, c_modelo, c_precio, c_lista)]

\* pd.concat(filas, ignore_index=True)
RECURSIVE ConcatFilas(_)
ConcatFilas(fs) ==
    IF fs = <<>> THEN <<>> ELSE Head(fs) \o ConcatFilas(Tail(fs))

----------------------------------------------------------------------------
(* cargar_catalogo_productos: the source files *)

\* code points of the characters of the modelled file names
CodePoint(c) ==
    CASE c = "." -> 46 [] c = "A" -> 65 [] c = "B" -> 66 [] c = "l" -> 108
      [] c = "s" -> 115 [] c = "x" -> 120 [] c = "|" -> 124

XLSX == <<".","x","l","s","x">>

\* a < b for two file names, as Python compares strings
RECURSIVE NameLess(_, _)
NameLess(a, b) ==
    IF b = <<>> THEN FALSE
    ELSE IF a = <<>> THEN TRUE
    ELSE IF Head(a) # Head(b) THEN CodePoint(Head(a)) < CodePoint(Head(b))
    ELSE NameLess(Tail(a), Tail(b))

\* sorted(DATA_DIR.glob("*.xlsx")) for a directory holding the files fs
RECURSIVE SortedFiles(_)
SortedFiles(fs) ==
    IF fs = {} THEN <<>>
    ELSE LET f == CHOOSE g \in fs :
                    \A o \in fs \ {g} : NameLess(g.stem \o XLSX, o.stem \o XLSX)
         IN  <<f>> \o SortedFiles(fs \ {f})

\* whether the try block of lines 97-188 raises for the file: pd.read_excel
\* parses every sheet before the loop, and nothing inside the block is caught
\* sheet by sheet
\* (a plausible slip: a failure is swallowed)
FileRaisesNever(f) == FALSE

FileRaises(f) == \E i \in 1..Len(f.sheets) : f.sheets[i].raises

\* (a plausible slip: the failed file is kept in the catalog as an "ERROR" row)
FilasConFilaError(fs, proveedor) ==
    Append(fs, << [proveedor |-> proveedor, uso |-> <<>>,
                   codigo |-> <<"E","R","R","O","R">>, producto |-> <<>>,
                   marca |-> <<>>, modelo |-> <<>>, precio |-> NaN,
                   lista_precio |-> <<>>,
                   uid |-> proveedor \o <<"|","|","0">>,
                   texto_busqueda |-> <<"E","R","R","O","R">>,
                   label |-> <<"E","R","R","O","R">>] >>)

\* what the except branch of lines 190-193 leaves in filas: nothing is added
FilasTrasError(fs, proveedor) == fs

\* whole function, lines 57-203: the catalog of the sorted source files
RECURSIVE CatalogoDe(_)
CatalogoDe(files) ==
    IF files = <<>> THEN <<>>
    ELSE (IF FileRaises(Head(files)) \/ df_list(Head(files).sheets) = <<>>
          THEN <<>>
          ELSE Out(Head(files).stem, df_list(Head(files).sheets)))
           \o CatalogoDe(Tail(files))

----------------------------------------------------------------------------
(* The page script: search, selection, suggested price (lines 214-268) *)

\* Whether re.compile(b) raises.  Over the characters of the modelled inputs
\* the only way is an opening parenthesis, which nothing closes.
RegexRaises(b) == \E i \in 1..Len(b) : b[i] = "("

\* re.search(b, text) for a pattern of literal characters and "." (which
\* matches any one character)
RegexSearch(text, b) ==
    \E o \in 0..(Len(text) - Len(b)) :
        \A i \in 1..Len(b) : b[i] = "." \/ b[i] = text[o + i]

\* lines 227-230: catalogo[catalogo["texto_busqueda"].str.contains(b, na=False)]
\* for a non-blank input; str.contains takes b for a regular expression
Filtrar(cat, texto) ==
    LET b == Upper(Strip(texto))
    IN  IF Strip(texto) = <<>> THEN cat
        ELSE SelectSeq(cat, LAMBDA r : RegexSearch(r.texto_busqueda, b))

\* bool(x) of a price: a float is false only when it is zero; NaN is true
Truthy(x) == ~(x.k = "float" /\ x.v = 0)

\* line 268: float(fila_sel.get("precio") or 0.0)
PrecioSugerido(precio) == IF Truthy(precio) THEN precio ELSE FloatCell(0)

----------------------------------------------------------------------------
(* The quotation insert (lines 286-323) *)

\* the parameters bound to the INSERT, lines 310-317
FilaCotizacion(f, tot) ==
    [cotizador |-> f.cotizador, cliente |-> f.cliente, producto |-> f.producto,
     cantidad |-> f.cantidad, precio_unitario |-> f.precio_unitario,
     total |-> tot]

\* (a plausible slip: conn.commit() is left out, and closing the connection
\* rolls the insert back)
TablaSinCommit(tab, pendientes) == tab

\* line 318: conn.commit() makes the transaction's rows part of the table
TablaTrasCommit(tab, pendientes) == tab \o pendientes

----------------------------------------------------------------------------
(* Bounds and input pools *)

MaxGridRows == 82      \* longest raw grid handed to _find_header_row
MaxCodeLen == 4        \* longest text cell handed to _norm_codigo

\* all sequences over S of length at most n
RECURSIVE SeqsUpTo(_, _)
SeqsUpTo(S, n) ==
    IF n = 0 THEN {<<>>}
    ELSE LET shorter == SeqsUpTo(S, n - 1)
         IN  shorter \cup {Append(t, c) : t \in shorter, c \in S}

PlainRows ==
    { <<StrCell(<<"T","B","R">>), NaN, IntCell(5)>>,
      <<StrCell(<<"C","O","D">>), StrCell(<<"c","o","d","i","g"," ","o">>)>> }
MarkerRows ==
    { <<NaN, StrCell(<<"c","o","d","i","g","o">>)>>,
      <<StrCell(<<"C","O'","D","I","G","O">>)>>,
      <<IntCell(1), StrCell(<<"N","o'","d","i","g","o">>),
        StrCell(<<"x"," ","C","o","d","i","g","o",".">>)>>,
      <<StrCell(<<"c","o'","d","i","g","o","s">>), FloatCell(150)>> }

\* grid lengths and marker positions around both ends of the scanned window
GridLens == (0..3) \cup ((HeaderScanRows - 2)..MaxGridRows)
ProbeRows == {None} \cup (0..2) \cup ((HeaderScanRows - 2)..(MaxGridRows - 1))

CodeAlphabet == {"1", ".", "0", " ", "A"}
CodigoInputs ==
    {NaN, IntCell(12345), FloatCell(1234500), FloatCell(35050), FloatCell(-100)}
      \cup {StrCell(t) : t \in SeqsUpTo(CodeAlphabet, MaxCodeLen)}

MaxFiles == 2          \* most source files in the data directory
MaxSheets == 2         \* most sheets in one source file
MaxTotalSheets == 4    \* most sheets in the data directory as a whole

\* File base names; "|" is legal in a file name and in a sheet name.
Stems == { <<"A">>, <<"A","|","B">>, <<"B">> }

\* A sheet: its name, its raw grid, and whether reading or processing it raises.
HojaCodigo ==
    [name |-> <<"B","|","C">>, raises |-> FALSE,
     grid |-> << <<StrCell(<<"L","i","s","t","a"," ","2","0","2","4">>), NaN, NaN, NaN>>,
                 <<StrCell(<<"C","O","D","I","G","O">>), StrCell(<<"C","o","d","i","g","o"," ">>), StrCell(<<"M","A","R","C","A">>), StrCell(<<"P","R","E","C","I","O">>)>>,
                 <<StrCell(<<"A","1">>), StrCell(<<"Z","9">>), StrCell(<<"G","o","o","d">>), StrCell(<<"3","5","0",".","5">>)>>,
                 <<NaN, StrCell(<<"Z","8">>), NaN, NaN>> >>]
HojaAcento ==
    [name |-> <<" ","c">>, raises |-> FALSE,
     grid |-> << <<StrCell(<<"C","O'","D","I","G","O">>), StrCell(<<"M","e","d","i","d","a">>), StrCell(<<"C","o","n","t","a","d","o">>)>>,
                 <<FloatCell(1234500), StrCell(<<"2","0","5","/","7","5","R","1","6">>), IntCell(120)>>,
                 <<StrCell(<<"B","2">>), NaN, StrCell(<<"N","/","D">>)>> >>]
HojaSinEncabezado ==
    [name |-> <<"t","b","r">>, raises |-> FALSE,
     grid |-> << <<StrCell(<<"T","O","T","A","L">>), IntCell(3)>>,
                 <<StrCell(<<"C","O","D">>), StrCell(<<"R","1","2">>)>> >>]
HojaRota ==
    [name |-> <<"D">>, raises |-> TRUE,
     grid |-> << <<StrCell(<<"C","O","D","I","G","O">>), StrCell(<<"M","A","R","C","A">>)>>,
                 <<StrCell(<<"R","1">>), StrCell(<<"A","e","o","l","u","s">>)>> >>]
Hojas == {HojaCodigo, HojaAcento, HojaSinEncabezado, HojaRota}

\* the number of sheets of the workbooks w[s], s in ss
RECURSIVE SheetCount(_, _)
SheetCount(w, ss) ==
    IF ss = {} THEN 0
    ELSE LET s == CHOOSE x \in ss : TRUE
         IN  Len(w[s]) + SheetCount(w, ss \ {s})

\* the sheets of a workbook, in order: one to MaxSheets sheets, no name twice
Workbooks ==
    {w \in SeqsUpTo(Hojas, MaxSheets) :
        /\ w # <<>>
        /\ \A i \in 1..Len(w), j \in 1..Len(w) : i # j => w[i].name # w[j].name}

MaxBusquedaLen == 3    \* longest text typed into the search box
MaxCantidad == 2       \* largest quantity entered in the form
MaxRows == 2           \* most rows table cotizaciones may hold

\* characters typed into the search box
SearchAlphabet == {"r", "1", ".", "(", " "}

\* form inputs; number_input keeps cantidad >= 1 and precio_unitario >= 0
Cotizadores == { <<"a","n","a">> }
Clientes == { <<"A","C","M","E">> }
Productos == { <<"G","O","O","D"," ","|"," ","T","B","R"," ","|"," ","S","/"," ","3","5","0",".","5","0">>, <<"x">> }
Precios == {0, 35050}

----------------------------------------------------------------------------
(* State machines *)

HeaderIdle == df_raw = <<>> /\ hdr = None
CodigoIdle == cod_x = NaN /\ cod_1 = <<>> /\ cod_2 = <<>>
CargaIdle ==
    archivos = <<>> /\ k = 1 /\ filas = <<>> /\ avisos = <<>> /\ catalogo = <<>>
NoForm ==
    [cotizador |-> <<>>, cliente |-> <<>>, producto |-> <<>>,
     cantidad |-> 1, precio_unitario |-> 0]
NoMensaje == [tipo |-> "none", total |-> <<>>]
UiIdle ==
    /\ busqueda = <<>> /\ filtrados = <<>> /\ uid_seleccionado = <<>>
    /\ fila_sel = <<>> /\ precio_sugerido = NaN
DbIdle ==
    /\ form = NoForm /\ total = 0 /\ tabla = <<>> /\ tabla_antes = <<>>
    /\ txn = <<>> /\ mensaje = NoMensaje

\* --- _find_header_row on one raw grid --------------------------------------
InitHeader ==
    /\ pc = "hdr_start"
    /\ \E n \in GridLens, p \in ProbeRows, q \in ProbeRows,
          m \in MarkerRows, plain \in PlainRows :
          df_raw = [i \in 1..n |->
                      IF i - 1 = p \/ i - 1 = q THEN m ELSE plain]
    /\ hdr = None
    /\ CodigoIdle
    /\ CargaIdle
    /\ UiIdle
    /\ DbIdle

FindHeader ==
    /\ pc = "hdr_start"
    /\ hdr' = _find_header_row(df_raw)
    /\ pc' = "hdr_done"
    /\ UNCHANGED <<df_raw, codigoVars, cargaVars, uiVars, dbVars>>

NextHeader == FindHeader
SpecHeader == InitHeader /\ [][NextHeader]_vars

\* --- _norm_codigo applied to a cell, then to its own result -------------------
InitCodigo ==
    /\ pc = "cod_start"
    /\ cod_x \in CodigoInputs
    /\ cod_1 = <<>>
    /\ cod_2 = <<>>
    /\ HeaderIdle
    /\ CargaIdle
    /\ UiIdle
    /\ DbIdle

NormCodigo ==
    /\ pc = "cod_start"
    /\ cod_1' = _norm_codigo(cod_x)
    /\ pc' = "cod_once"
    /\ UNCHANGED <<cod_x, cod_2, headerVars, cargaVars, uiVars, dbVars>>

NormCodigoAgain ==
    /\ pc = "cod_once"
    /\ cod_2' = _norm_codigo(StrCell(cod_1))
    /\ pc' = "cod_twice"
    /\ UNCHANGED <<cod_x, cod_1, headerVars, cargaVars, uiVars, dbVars>>

NextCodigo == NormCodigo \/ NormCodigoAgain
SpecCodigo == InitCodigo /\ [][NextCodigo]_vars

\* --- cargar_catalogo_productos over a directory of workbooks -------------------
InitCarga ==
    /\ pc = "carga"
    /\ \E ss \in SUBSET Stems :
          /\ Cardinality(ss) <= MaxFiles
          /\ \E w \in [ss -> Workbooks] :
                /\ SheetCount(w, ss) <= MaxTotalSheets
                /\ archivos = SortedFiles({[stem |-> s, sheets |-> w[s]] : s \in ss})
    /\ k = 1
    /\ filas = <<>>
    /\ avisos = <<>>
    /\ catalogo = <<>>
    /\ HeaderIdle
    /\ CodigoIdle
    /\ UiIdle
    /\ DbIdle

\* lines 60-65: no source file at all
SinArchivos ==
    /\ pc = "carga"
    /\ archivos = <<>>
    /\ catalogo' = <<>>
    /\ pc' = "carga_done"
    /\ UNCHANGED <<archivos, k, filas, avisos, headerVars, codigoVars, uiVars, dbVars>>

\* lines 190-193: the file's try block raised
ErrorLeyendo ==
    /\ pc = "carga"
    /\ k <= Len(archivos)
    /\ FileRaises(archivos[k])
    /\ avisos' = Append(avisos, [nivel |-> "error", proveedor |-> archivos[k].stem])
    /\ filas' = FilasTrasError(filas, archivos[k].stem)
    /\ k' = k + 1
    /\ UNCHANGED <<pc, archivos, catalogo, headerVars, codigoVars, uiVars, dbVars>>

\* lines 127-129: no sheet of the file has a header row
SinEncabezado ==
    /\ pc = "carga"
    /\ k <= Len(archivos)
    /\ ~FileRaises(archivos[k])
    /\ df_list(archivos[k].sheets) = <<>>
    /\ avisos' = Append(avisos, [nivel |-> "warning", proveedor |-> archivos[k].stem])
    /\ k' = k + 1
    /\ UNCHANGED <<pc, archivos, filas, catalogo, headerVars, codigoVars, uiVars, dbVars>>

\* lines 131-188: the file's standard frame is collected
ProcesarExcel ==
    /\ pc = "carga"
    /\ k <= Len(archivos)
    /\ ~FileRaises(archivos[k])
    /\ df_list(archivos[k].sheets) # <<>>
    /\ filas' = Append(filas, Out(archivos[k].stem, df_list(archivos[k].sheets)))
    /\ k' = k + 1
    /\ UNCHANGED <<pc, archivos, avisos, catalogo, headerVars, codigoVars, uiVars, dbVars>>

\* lines 195-203: the loop is over
Retornar ==
    /\ pc = "carga"
    /\ archivos # <<>>
    /\ k > Len(archivos)
    /\ catalogo' = IF filas = <<>> THEN <<>> ELSE ConcatFilas(filas)
    /\ pc' = "carga_done"
    /\ UNCHANGED <<archivos, k, filas, avisos, headerVars, codigoVars, uiVars, dbVars>>

NextCarga ==
    SinArchivos \/ ErrorLeyendo \/ SinEncabezado \/ ProcesarExcel \/ Retornar
SpecCarga == InitCarga /\ [][NextCarga]_vars

\* --- the page script from the loaded catalog to the pre-filled form -----------
InitUI ==
    /\ pc = "ui"
    /\ \E w \in Workbooks :
          archivos = <<[stem |-> <<"A">>, sheets |-> w]>>
    /\ catalogo = CatalogoDe(archivos)
    /\ busqueda \in SeqsUpTo(SearchAlphabet, MaxBusquedaLen)
    /\ k = 1 /\ filas = <<>> /\ avisos = <<>>
    /\ filtrados = <<>>
    /\ uid_seleccionado = <<>>
    /\ fila_sel = <<>>
    /\ precio_sugerido = NaN
    /\ HeaderIdle
    /\ CodigoIdle
    /\ DbIdle

\* lines 217-219: nothing to search in; st.stop()
CatalogoVacio ==
    /\ pc = "ui"
    /\ catalogo = <<>>
    /\ pc' = "ui_stop_vacio"
    /\ UNCHANGED <<headerVars, codigoVars, cargaVars, uiVars, dbVars>>

\* lines 227-230
Buscar ==
    /\ pc = "ui"
    /\ catalogo # <<>>
    /\ Strip(busqueda) = <<>> \/ ~RegexRaises(Upper(Strip(busqueda)))
    /\ filtrados' = Filtrar(catalogo, busqueda)
    /\ pc' = "ui_filtrado"
    /\ UNCHANGED <<busqueda, uid_seleccionado, fila_sel, precio_sugerido,
                   headerVars, codigoVars, cargaVars, dbVars>>

\* line 230 raises re.error: the run of the script ends in an exception
BuscarExcepcion ==
    /\ pc = "ui"
    /\ catalogo # <<>>
    /\ Strip(busqueda) # <<>>
    /\ RegexRaises(Upper(Strip(busqueda)))
    /\ pc' = "ui_excepcion"
    /\ UNCHANGED <<headerVars, codigoVars, cargaVars, uiVars, dbVars>>

\* lines 239-241: no match; st.stop()
SinCoincidencias ==
    /\ pc = "ui_filtrado"
    /\ filtrados = <<>>
    /\ pc' = "ui_stop_sin"
    /\ UNCHANGED <<headerVars, codigoVars, cargaVars, uiVars, dbVars>>

\* lines 251-268: an option of the selectbox is picked; the first row with
\* that uid is the selected row
Seleccionar ==
    /\ pc = "ui_filtrado"
    /\ filtrados # <<>>
    /\ \E n \in 1..Len(filtrados) :
          LET df_sel == SelectSeq(filtrados, LAMBDA r : r.uid = filtrados[n].uid)
          IN  /\ uid_seleccionado' = filtrados[n].uid
              /\ fila_sel' = <<df_sel[1]>>
              /\ precio_sugerido' = PrecioSugerido(df_sel[1].precio)
    /\ pc' = "ui_form"
    /\ UNCHANGED <<busqueda, filtrados, headerVars, codigoVars, cargaVars, dbVars>>

NextUI ==
    CatalogoVacio \/ Buscar \/ BuscarExcepcion \/ SinCoincidencias \/ Seleccionar
SpecUI == InitUI /\ [][NextUI]_vars

\* --- submissions of the quotation form ----------------------------------------------
InitDb ==
    /\ pc = "q_form"
    /\ form = NoForm
    /\ total = 0
    /\ tabla = <<>>
    /\ tabla_antes = <<>>
    /\ txn = <<>>
    /\ mensaje = NoMensaje
    /\ HeaderIdle
    /\ CodigoIdle
    /\ CargaIdle
    /\ UiIdle

\* lines 284-287: the form is submitted; total is computed
Enviar ==
    /\ pc = "q_form"
    /\ Len(tabla) < MaxRows
    /\ \E co \in Cotizadores, cl \in Clientes, pr \in Productos,
          ca \in 1..MaxCantidad, pu \in Precios :
          /\ form' = [cotizador |-> co, cliente |-> cl, producto |-> pr,
                      cantidad |-> ca, precio_unitario |-> pu]
          /\ total' = ca * pu
    /\ tabla_antes' = tabla
    /\ mensaje' = NoMensaje
    /\ pc' = "q_connect"
    /\ UNCHANGED <<tabla, txn, headerVars, codigoVars, cargaVars, uiVars>>

\* line 309: engine.connect() opens a connection
Conectar ==
    /\ pc = "q_connect"
    /\ pc' = "q_execute"
    /\ UNCHANGED <<dbVars, headerVars, codigoVars, cargaVars, uiVars>>

\* line 310: the INSERT is executed inside the connection's transaction
Ejecutar ==
    /\ pc = "q_execute"
    /\ txn' = <<FilaCotizacion(form, total)>>
    /\ pc' = "q_commit"
    /\ UNCHANGED <<form, total, tabla, tabla_antes, mensaje,
                   headerVars, codigoVars, cargaVars, uiVars>>

\* line 318: conn.commit(), then the with block closes the connection
Commit ==
    /\ pc = "q_commit"
    /\ tabla' = TablaTrasCommit(tabla, txn)
    /\ txn' = <<>>
    /\ pc' = "q_committed"
    /\ UNCHANGED <<form, total, tabla_antes, mensaje,
                   headerVars, codigoVars, cargaVars, uiVars>>

\* line 320: st.success with the total to two decimals
Exito ==
    /\ pc = "q_committed"
    /\ mensaje' = [tipo |-> "success", total |-> Format2f(total)]
    /\ pc' = "q_fin"
    /\ UNCHANGED <<form, total, tabla, tabla_antes, txn,
                   headerVars, codigoVars, cargaVars, uiVars>>

\* lines 322-323: connect, execute or commit raised; leaving the with block
\* closes the connection, which rolls back what was not committed (a commit
\* that raises has committed nothing: the database's commit is atomic)
Fallo ==
    /\ pc \in {"q_connect", "q_execute", "q_commit"}
    /\ txn' = <<>>
    /\ mensaje' = [tipo |-> "error", total |-> <<>>]
    /\ pc' = "q_fin"
    /\ UNCHANGED <<form, total, tabla, tabla_antes,
                   headerVars, codigoVars, cargaVars, uiVars>>

\* the page is shown again for another quotation
OtraCotizacion ==
    /\ pc = "q_fin"
    /\ pc' = "q_form"
    /\ UNCHANGED <<dbVars, headerVars, codigoVars, cargaVars, uiVars>>

NextDb ==
    Enviar \/ Conectar \/ Ejecutar \/ Commit \/ Exito \/ Fallo \/ OtraCotizacion
SpecDb == InitDb /\ [][NextDb]_vars

----------------------------------------------------------------------------
(* Claims *)

\* the claim's own reading of "row i holds a marker cell"
ClaimMarkerCell(x) ==
    LET t == Upper(Str(x))
    IN  Contains(t, CODIGO) \/ Contains(t, CODIGO_ACENTO)
ClaimMarkerRows(df) ==
    {i \in 0..(Min(Len(df), 80) - 1) :
        \E j \in 1..Len(df[i + 1]) : ClaimMarkerCell(df[i + 1][j])}

\* C7: _find_header_row returns the smallest row index i < min(rows, 80) whose
\* row has a cell that, as an uppercased string, contains CODIGO or CÓDIGO,
\* and None when there is no such index (a marker only at row 80 or later is
\* not found); the grid is left as it was.
C7_HeaderRow ==
    /\ [](pc = "hdr_done" =>
            LET c == ClaimMarkerRows(df_raw)
            IN  IF c = {} THEN hdr = None
                ELSE hdr \in c /\ \A i \in c : hdr <= i)
    /\ [][pc = "hdr_start" => df_raw' = df_raw]_vars

\* C7 witness: a grid longer than 80 rows whose only marker rows lie at row
\* index 80 or later has been scanned and reported not-found.
C7_Witness ==
    /\ pc = "hdr_done"
    /\ Len(df_raw) > 80
    /\ \E i \in 80..(Len(df_raw) - 1) : ClaimMarkerCell(df_raw[i + 1][1])
    /\ hdr = None

\* C9 (as claimed): _norm_codigo is idempotent on every cell value.
C9_Idempotent == pc = "cod_twice" => cod_2 = cod_1

\* C9 (amended): _norm_codigo(x) never has leading whitespace, and normalizing
\* it again changes it exactly when it still ends in ".0" or in whitespace
\* (one ".0" is removed after trimming, none of what is then exposed); for an
\* empty cell and for a non-negative integral float the result is the empty
\* string resp. the integer's digits, and is a fixed point.
C9_NormOnce ==
    pc = "cod_twice" =>
        /\ cod_1 = <<>> \/ cod_1[1] \notin Whitespace
        /\ cod_2 = cod_1 <=>
              /\ ~EndsWith(cod_1, <<".", "0">>)
              /\ cod_1 = <<>> \/ cod_1[Len(cod_1)] \notin Whitespace
        /\ cod_x.k = "nan" => cod_1 = <<>> /\ cod_2 = <<>>
        /\ (cod_x.k = "float" /\ cod_x.v >= 0 /\ cod_x.v % 100 = 0) =>
              cod_1 = NatStr(cod_x.v \div 100) /\ cod_2 = cod_1

\* C9 witness: a float-formatted code ("....0") was normalized twice and the
\* second pass left it alone.
C9_Witness ==
    /\ pc = "cod_twice"
    /\ cod_x = FloatCell(1234500)
    /\ cod_1 = <<"1","2","3","4","5">>
    /\ cod_2 = cod_1

\* --- the claims about cargar_catalogo_productos -------------------------------

\* the catalog rows of one source file
RowsOf(stem) == SelectSeq(catalogo, LAMBDA r : r.proveedor = stem)

HasAviso(nivel, stem) ==
    \E i \in 1..Len(avisos) : avisos[i] = [nivel |-> nivel, proveedor |-> stem]

\* the claims' own reading of the input
ClaimHasHeader(sheet) == ClaimMarkerRows(sheet.grid) # {}
ClaimHeaderRow(sheet) ==
    LET c == ClaimMarkerRows(sheet.grid)
    IN  CHOOSE i \in c : \A j \in c : i <= j
ClaimFileFails(f) == \E i \in 1..Len(f.sheets) : f.sheets[i].raises

\* the rows the sheets with a header hold below it, empty rows not counted
RECURSIVE ClaimRowCount(_)
ClaimRowCount(sheets) ==
    IF sheets = <<>> THEN 0
    ELSE (IF ClaimHasHeader(Head(sheets))
          THEN Len(SheetFrame(Head(sheets), ClaimHeaderRow(Head(sheets))).rows)
          ELSE 0)
           + ClaimRowCount(Tail(sheets))

\* C1: after any ingestion pass the uid values of the catalog rows are pairwise
\* distinct, whatever the file base names and sheet names are.
C1_UidsDistinct ==
    pc = "carga_done" =>
        \A i \in 1..Len(catalogo), j \in 1..Len(catalogo) :
            i # j => catalogo[i].uid # catalogo[j].uid

Fields(r) ==
    <<r.codigo, r.producto, r.marca, r.modelo, r.precio, r.lista_precio>>

\* the rows of one sheet with every field resolved among that sheet's own labels
ClaimSheetRows(proveedor, sheet) ==
    LET fr == SheetFrame(sheet, ClaimHeaderRow(sheet))
    IN  [i \in 1..Len(fr.rows) |->
            Fields(OutRow(proveedor, fr.rows[i], i - 1,
                          col(fr.cols, mapa_codigo), col(fr.cols, mapa_producto),
                          col(fr.cols, mapa_marca), col(fr.cols, mapa_modelo),
                          col(fr.cols, mapa_precio), col(fr.cols, mapa_lista_precio)))]

RECURSIVE ClaimFileRows(_, _)
ClaimFileRows(proveedor, sheets) ==
    IF sheets = <<>> THEN <<>>
    ELSE (IF ClaimHasHeader(Head(sheets))
          THEN ClaimSheetRows(proveedor, Head(sheets)) ELSE <<>>)
           \o ClaimFileRows(proveedor, Tail(sheets))

\* C3: column resolution is per sheet: every catalog row takes each canonical
\* field from the first synonym present among the labels of its own sheet, also
\* when another sheet of the same file uses a different synonym.
C3_PerSheetColumns ==
    pc = "carga_done" =>
        \A n \in 1..Len(archivos) :
            LET f == archivos[n]
                got == RowsOf(f.stem)
            IN  ~ClaimFileFails(f)
                =>  [i \in 1..Len(got) |-> Fields(got[i])]
                      = ClaimFileRows(f.stem, f.sheets)

\* a sheet that is processable on its own and holds rows
ClaimUsable(sheet) ==
    /\ ~sheet.raises
    /\ ClaimHasHeader(sheet)
    /\ SheetFrame(sheet, ClaimHeaderRow(sheet)).rows # <<>>

\* C5 (as claimed): when one sheet raises and other sheets of the file are
\* processable, only that sheet's rows are omitted: the other sheets' rows are
\* in the catalog, and a warning reports the omission.
C5_SheetFailureLocal ==
    pc = "carga_done" =>
        \A n \in 1..Len(archivos) :
            LET f == archivos[n]
                others == SelectSeq(f.sheets, LAMBDA s : ~s.raises)
            IN  (ClaimFileFails(f) /\ \E i \in 1..Len(f.sheets) : ClaimUsable(f.sheets[i]))
                =>  /\ Len(RowsOf(f.stem)) = ClaimRowCount(others)
                    /\ HasAviso("warning", f.stem)

\* C5 (amended): when one sheet raises, every row of its file is omitted, those
\* of its processable sheets too, and the omission is reported once, as an
\* error; the rows of every other file are in the catalog as that file alone
\* yields them.
C5_SheetFailureDropsFile ==
    pc = "carga_done" =>
        \A n \in 1..Len(archivos) :
            LET f == archivos[n]
            IN  IF ClaimFileFails(f)
                THEN /\ RowsOf(f.stem) = <<>>
                     /\ HasAviso("error", f.stem)
                     /\ ~HasAviso("warning", f.stem)
                     /\ Cardinality({i \in 1..Len(avisos) :
                                        avisos[i].proveedor = f.stem}) = 1
                ELSE RowsOf(f.stem) =
                        (IF df_list(f.sheets) = <<>> THEN <<>>
                         ELSE Out(f.stem, df_list(f.sheets)))

\* C5 witness: a file with a raising sheet and a processable sheet was passed
\* over with an error while another file's rows reached the catalog.
C5_Witness ==
    /\ pc = "carga_done"
    /\ \E n \in 1..Len(archivos), m \in 1..Len(archivos) :
          /\ ClaimFileFails(archivos[n])
          /\ \E i \in 1..Len(archivos[n].sheets) : ClaimUsable(archivos[n].sheets[i])
          /\ HasAviso("error", archivos[n].stem)
          /\ ~ClaimFileFails(archivos[m])
          /\ RowsOf(archivos[m].stem) # <<>>

\* the catalog of a list of files none of which fails
RECURSIVE ClaimCatalog(_)
ClaimCatalog(files) ==
    IF files = <<>> THEN <<>>
    ELSE (IF df_list(Head(files).sheets) = <<>> THEN <<>>
          ELSE Out(Head(files).stem, df_list(Head(files).sheets)))
           \o ClaimCatalog(Tail(files))

\* C6: when a source file fails, ingestion still runs to its end (every step
\* moves on to the next file or returns) and returns the catalog the remaining
\* files alone produce (same rows, uids and order); the failing file has no
\* row in it, and an error is reported for it.
C6_FailedFileOmitted ==
    /\ [][pc = "carga" => \/ pc' = "carga_done"
                          \/ pc' = "carga" /\ k' = k + 1 /\ k' <= Len(archivos) + 1]_vars
    /\ [](pc = "carga_done" =>
            /\ catalogo = ClaimCatalog(SelectSeq(archivos,
                                                 LAMBDA f : ~ClaimFileFails(f)))
            /\ \A n \in 1..Len(archivos) :
                  ClaimFileFails(archivos[n])
                  =>  /\ RowsOf(archivos[n].stem) = <<>>
                      /\ HasAviso("error", archivos[n].stem))

\* C6 witness: the first of two files failed and the catalog holds the rows of
\* the second.
C6_Witness ==
    /\ pc = "carga_done"
    /\ Len(archivos) = 2
    /\ ClaimFileFails(archivos[1])
    /\ ~ClaimFileFails(archivos[2])
    /\ catalogo # <<>>
    /\ HasAviso("error", archivos[1].stem)

\* --- the claims about the page script ----------------------------------------------

\* C4: for a non-blank search input the filtered result is exactly the rows, in
\* catalog order, whose search_text contains the trimmed, uppercased input as a
\* literal substring (".", "(" and the like are matched literally); a blank
\* input returns the whole catalog.
C4_LiteralSubstring ==
    (pc \in {"ui_filtrado", "ui_excepcion", "ui_stop_sin", "ui_form"}) =>
        /\ pc # "ui_excepcion"
        /\ filtrados =
              (IF Strip(busqueda) = <<>> THEN catalogo
               ELSE SelectSeq(catalogo,
                      LAMBDA r : Contains(r.texto_busqueda, Upper(Strip(busqueda)))))

\* C10: the suggested unit price of the selected row is a non-negative number:
\* the row's price when it has one, and 0.0 when its stored price is absent.
C10_PrecioSugerido ==
    pc = "ui_form" =>
        /\ precio_sugerido.k = "float"
        /\ precio_sugerido.v >= 0
        /\ precio_sugerido =
              (IF IsNa(fila_sel[1].precio) THEN FloatCell(0) ELSE fila_sel[1].precio)

\* --- the claim about the quotation insert -----------------------------------------

\* C8: a submission ends in exactly one of two outcomes: one new row with the
\* submitted values and total = cantidad * precio_unitario and a success
\* message with that total, or no new row and a failure message; no row is
\* partially written, and success is never shown without the committed row.
C8_SubmissionOutcome ==
    /\ \A i \in 1..Len(tabla) :
          tabla[i].total = tabla[i].cantidad * tabla[i].precio_unitario
    /\ mensaje.tipo = "success" =>
          /\ tabla # <<>>
          /\ tabla[Len(tabla)] =
                [cotizador |-> form.cotizador, cliente |-> form.cliente,
                 producto |-> form.producto, cantidad |-> form.cantidad,
                 precio_unitario |-> form.precio_unitario,
                 total |-> form.cantidad * form.precio_unitario]
    /\ pc = "q_fin" =>
          /\ txn = <<>>
          /\ \/ /\ mensaje = [tipo |-> "success",
                              total |-> Format2f(form.cantidad * form.precio_unitario)]
                /\ Len(tabla) = Len(tabla_antes) + 1
                /\ SubSeq(tabla, 1, Len(tabla_antes)) = tabla_antes
             \/ /\ mensaje.tipo = "error"
                /\ tabla = tabla_antes

\* C8 witness: with a row already in the table, a submission of 2 units at
\* 350.50 was committed and reported with total 701.00.
C8_Witness ==
    /\ pc = "q_fin"
    /\ tabla_antes # <<>>
    /\ Len(tabla) = Len(tabla_antes) + 1
    /\ form.cantidad = 2
    /\ mensaje = [tipo |-> "success", total |-> <<"7","0","1",".","0","0">>]

====
